---- MODULE Spec2Model ----
(***************************************************************************)
(* A model of thunder_bot.py: one run of main(), which resolves the target *)
(* date, resolves the team id, fetches the team's game of that date,       *)
(* formats the message and posts it.                                       *)
(*                                                                         *)
(* Python strings are TLA+ strings (Len, \o and SubSeq act on them         *)
(* character by character).  The en dash U+2013 of the score line is one   *)
(* character in Python; it is written "-" here, which is also one          *)
(* character.  An optional value (None or a value) is a record             *)
(* [tag |-> "None"] or [tag |-> "Some", v |-> value].                      *)
(***************************************************************************)
EXTENDS Integers, Sequences, FiniteSets, TLC

VARIABLES
    pc,        \* the stage main() is about to run, or "Done" once the process ended
    environ,   \* os.environ: FORCE_DATE and TEAM_ID, each unset or a string
    creds,     \* the module globals API_KEY, API_SECRET, ACCESS_TOKEN, ACCESS_SECRET
    now,       \* the wall clock read by datetime.now: a UTC day (ordinal) and hour
    ydate,     \* main's local ydate
    team_id,   \* main's local team_id
    r,         \* the last HTTP response received (the local r of the three callers)
    game,      \* main's local game
    tweet,     \* main's local tweet
    calls,     \* the log of the network requests sent so far, in order, each with
               \* the outcome of its answer
    stages,    \* the stages of main() entered so far, in order
    out,       \* what fail() printed, if it was called
    exit       \* how the process ended: None while it runs

vars == <<pc, environ, creds, now, ydate, team_id, r, game, tweet, calls, stages, out, exit>>

None == [tag |-> "None"]
Some(x) == [tag |-> "Some", v |-> x]

Min(a, b) == IF a <= b THEN a ELSE b

(***************************************************************************)
(* Strings                                                                 *)
(***************************************************************************)

\* s[i] of a Python string, 1-based
CharAt(s, i) == SubSeq(s, i, i)

\* s[:n] for n >= 0
SliceTo(s, n) == SubSeq(s, 1, Min(n, Len(s)))

\* s[n:] with n counted from 0
SliceFrom(s, n) == SubSeq(s, n + 1, Len(s))

StartsWith(s, p) == Len(p) <= Len(s) /\ SubSeq(s, 1, Len(p)) = p

Digits == <<"0", "1", "2", "3", "4", "5", "6", "7", "8", "9">>

IsDigit(c) == \E i \in 1..10 : Digits[i] = c

DigitVal(c) == (CHOOSE i \in 1..10 : Digits[i] = c) - 1

AllDigits(s) == \A i \in 1..Len(s) : IsDigit(CharAt(s, i))

RECURSIVE DigitsVal(_)
\* the value of a non-empty string of decimal digits
DigitsVal(s) ==
    IF Len(s) = 0 THEN 0
    ELSE DigitsVal(SubSeq(s, 1, Len(s) - 1)) * 10 + DigitVal(CharAt(s, Len(s)))

RECURSIVE NatStr(_)
NatStr(n) == IF n < 10 THEN Digits[n + 1] ELSE NatStr(n \div 10) \o Digits[(n % 10) + 1]

\* str(n) of an int, as the f-strings of format_tweet render it
IntStr(n) == IF n < 0 THEN "-" \o NatStr(0 - n) ELSE NatStr(n)

Uppers == <<"A", "B", "C", "D", "E", "F", "G", "H", "I", "J", "K", "L", "M",
            "N", "O", "P", "Q", "R", "S", "T", "U", "V", "W", "X", "Y", "Z">>
Lowers == <<"a", "b", "c", "d", "e", "f", "g", "h", "i", "j", "k", "l", "m",
            "n", "o", "p", "q", "r", "s", "t", "u", "v", "w", "x", "y", "z">>

LowerChar(c) ==
    IF \E i \in 1..26 : Uppers[i] = c
    THEN Lowers[CHOOSE i \in 1..26 : Uppers[i] = c]
    ELSE c

RECURSIVE Lower(_)
\* str.lower()
Lower(s) == IF Len(s) = 0 THEN "" ELSE LowerChar(CharAt(s, 1)) \o Lower(SliceFrom(s, 1))

RECURSIVE Strip(_)
\* str.strip() for the blank character
Strip(s) ==
    IF Len(s) = 0 THEN s
    ELSE IF CharAt(s, 1) = " " THEN Strip(SliceFrom(s, 1))
    ELSE IF CharAt(s, Len(s)) = " " THEN Strip(SubSeq(s, 1, Len(s) - 1))
    ELSE s

\* a value is truthy in an "if" or in all([...]): not None and not the empty string
Truthy(o) == o.tag = "Some" /\ o.v # ""

(***************************************************************************)
(* Calendar arithmetic of datetime.date                                    *)
(***************************************************************************)

Date(y, m, d) == [year |-> y, month |-> m, day |-> d]

IsLeap(y) == y % 4 = 0 /\ (y % 100 # 0 \/ y % 400 = 0)

DaysInMonthTable == <<31, 28, 31, 30, 31, 30, 31, 31, 30, 31, 30, 31>>

DaysBeforeMonthTable == <<0, 31, 59, 90, 120, 151, 181, 212, 243, 273, 304, 334>>

DaysInMonth(y, m) == IF m = 2 /\ IsLeap(y) THEN 29 ELSE DaysInMonthTable[m]

DaysBeforeYear(year) ==
    LET y == year - 1 IN y * 365 + (y \div 4) - (y \div 100) + (y \div 400)

DaysBeforeMonth(y, m) == DaysBeforeMonthTable[m] + (IF m > 2 /\ IsLeap(y) THEN 1 ELSE 0)

\* date.toordinal(): 0001-01-01 is day 1
ToOrdinal(d) == DaysBeforeYear(d.year) + DaysBeforeMonth(d.year, d.month) + d.day

\* date.fromordinal(n), by the 400/100/4/1-year cycles
FromOrdinal(ord) ==
    LET n0 == ord - 1
        n400 == n0 \div 146097
        a == n0 % 146097
        n100 == a \div 36524
        b == a % 36524
        n4 == b \div 1461
        c == b % 1461
        n1 == c \div 365
        n == c % 365
        year == n400 * 400 + 1 + n100 * 100 + n4 * 4 + n1
    IN  IF n1 = 4 \/ n100 = 4 THEN Date(year - 1, 12, 31)
        ELSE LET leapyear == n1 = 3 /\ (n4 # 24 \/ n100 = 3)
                 m0 == (n + 50) \div 32
                 p0 == DaysBeforeMonthTable[m0] + (IF m0 > 2 /\ leapyear THEN 1 ELSE 0)
                 month == IF p0 > n THEN m0 - 1 ELSE m0
                 preceding == IF p0 > n
                              THEN p0 - (DaysInMonthTable[month]
                                         + (IF month = 2 /\ leapyear THEN 1 ELSE 0))
                              ELSE p0
             IN  Date(year, month, n - preceding + 1)

\* date.weekday(): Monday is 0
Weekday(ord) == (ord + 6) % 7

ValidDate(y, m, d) ==
    /\ y >= 1 /\ y <= 9999
    /\ m >= 1 /\ m <= 12
    /\ d >= 1 /\ d <= DaysInMonth(y, m)

(***************************************************************************)
(* The process: fail() and the ways a run ends                             *)
(***************************************************************************)

\* main() returned: the interpreter exits with status 0
Returned == Some([status |-> 0, via |-> "return", exc |-> ""])

\* fail(msg, code=1): print(msg); sys.exit(code)
Failed == Some([status |-> 1, via |-> "fail", exc |-> ""])

\* an exception nobody catches: traceback, exit status 1
Raised(e) == Some([status |-> 1, via |-> "exception", exc |-> e])

(***************************************************************************)
(* chicago_yesterday_date                                                  *)
(***************************************************************************)

IsoExtendedSyntax(s) ==
    /\ Len(s) = 10
    /\ AllDigits(SubSeq(s, 1, 4))
    /\ CharAt(s, 5) = "-"
    /\ AllDigits(SubSeq(s, 6, 7))
    /\ CharAt(s, 8) = "-"
    /\ AllDigits(SubSeq(s, 9, 10))

IsoBasicSyntax(s) == Len(s) = 8 /\ AllDigits(s)

\* date.fromisoformat(s): the possible outcomes, Some(date) or None for a
\* ValueError.  YYYY-MM-DD is parsed by every Python that has zoneinfo; YYYYMMDD
\* is parsed from Python 3.11 on and rejected before, so both outcomes are
\* possible for it.  (The week formats of 3.11 are not among the inputs.)
FromIsoformat(s) ==
    IF IsoExtendedSyntax(s)
    THEN LET y == DigitsVal(SubSeq(s, 1, 4))
             m == DigitsVal(SubSeq(s, 6, 7))
             d == DigitsVal(SubSeq(s, 9, 10))
         IN  IF ValidDate(y, m, d) THEN {Some(Date(y, m, d))} ELSE {None}
    ELSE IF IsoBasicSyntax(s)
    THEN LET y == DigitsVal(SubSeq(s, 1, 4))
             m == DigitsVal(SubSeq(s, 5, 6))
             d == DigitsVal(SubSeq(s, 7, 8))
         IN  IF ValidDate(y, m, d) THEN {Some(Date(y, m, d)), None} ELSE {None}
    ELSE {None}

\* an instant or a wall-clock reading, in hours since the start of ordinal day 0
Hours(ord, hour) == ord * 24 + hour

\* America/Chicago (US rule since 2007): daylight time from the second Sunday of
\* March, 02:00 CST (08:00 UTC), to the first Sunday of November, 02:00 CDT
\* (07:00 UTC)
DstStartUtc(y) ==
    LET d == CHOOSE k \in 8..14 : Weekday(ToOrdinal(Date(y, 3, k))) = 6
    IN  Hours(ToOrdinal(Date(y, 3, d)), 8)

DstEndUtc(y) ==
    LET d == CHOOSE k \in 1..7 : Weekday(ToOrdinal(Date(y, 11, k))) = 6
    IN  Hours(ToOrdinal(Date(y, 11, d)), 7)

\* hours America/Chicago is behind UTC at the UTC instant h
ChicagoBehindUtc(h) ==
    LET y == FromOrdinal(h \div 24).year
    IN  IF DstStartUtc(y) <= h /\ h < DstEndUtc(y) THEN 5 ELSE 6

\* datetime.now(ZoneInfo("America/Chicago")): the aware wall-clock reading
NowCt(clock) ==
    LET h == Hours(clock.ord, clock.hour)
        off == ChicagoBehindUtc(h)
    IN  [ord |-> (h - off) \div 24, hour |-> (h - off) % 24, off |-> off]

\* the bug of subtracting 24 elapsed hours from the instant
MinusOneDayElapsed(dt) ==
    LET h == Hours(dt.ord, dt.hour) + dt.off - 24
        off == ChicagoBehindUtc(h)
    IN  [ord |-> (h - off) \div 24, hour |-> (h - off) % 24, off |-> off]

\* now_ct - timedelta(days=1): datetime arithmetic acts on the wall-clock
\* fields and keeps the tzinfo
MinusOneDay(dt) == [dt EXCEPT !.ord = dt.ord - 1]

\* the results chicago_yesterday_date() can return
ChicagoYesterdayDate(force, clock) ==
    LET default == FromOrdinal(MinusOneDay(NowCt(clock)).ord)
    IN  IF Truthy(force)
        THEN {IF o.tag = "Some" THEN o.v ELSE default : o \in FromIsoformat(force.v)}
        ELSE {default}

(***************************************************************************)
(* resolve_team_id                                                         *)
(***************************************************************************)

TEAM_ABBR == "OKC"
TEAM_NICK == "Thunder"
TEAM_CITY_FULL == "Oklahoma City Thunder"

\* int(s) of a string: Some(n), or None for a ValueError.  Surrounding blanks
\* are stripped, one sign is allowed, the rest must be decimal digits.
IntOfStr(s) ==
    LET t == Strip(s)
        signed == Len(t) > 0 /\ (CharAt(t, 1) = "-" \/ CharAt(t, 1) = "+")
        digits == IF signed THEN SliceFrom(t, 1) ELSE t
    IN  IF Len(digits) > 0 /\ AllDigits(digits)
        THEN Some(IF signed /\ CharAt(t, 1) = "-"
                  THEN 0 - DigitsVal(digits) ELSE DigitsVal(digits))
        ELSE None

\* the bug of leaving raise_for_status() out
RaisesForStatusNever(resp) == FALSE

\* Response.raise_for_status() raises HTTPError for 400 <= status_code < 600
RaisesForStatus(resp) == resp.status_code >= 400 /\ resp.status_code < 600

\* r.json().get("data", [])
DataOf(resp) == IF resp.hasData THEN resp.data ELSE <<>>

TeamMatches(t) == t.abbreviation = TEAM_ABBR \/ t.full_name = TEAM_CITY_FULL

RECURSIVE ScanTeamsLast(_, _)
\* the bug of letting a later match overwrite an earlier one
ScanTeamsLast(data, i) ==
    IF i > Len(data) THEN None
    ELSE LET later == ScanTeamsLast(data, i + 1)
         IN  IF later.tag = "Some" THEN later
             ELSE IF TeamMatches(data[i]) THEN Some(data[i].id)
             ELSE None

RECURSIVE ScanTeams(_, _)
\* the for loop of resolve_team_id from index i on: Some(id) at the first match
ScanTeams(data, i) ==
    IF i > Len(data) THEN None
    ELSE IF TeamMatches(data[i]) THEN Some(data[i].id)
    ELSE ScanTeams(data, i + 1)

\* the TEAM_ID override: Some(id) when it is set, non-empty and parses
TeamIdOverride(env_id) == IF Truthy(env_id) THEN IntOfStr(env_id.v) ELSE None

(***************************************************************************)
(* fetch_game_for                                                          *)
(***************************************************************************)

CompletedStatuses == {"final", "final/ot", "finished"}

\* the bug of comparing the status as the provider spells it
GameQualifiesCaseSensitive(g) ==
    \/ g.status \in CompletedStatuses
    \/ g.home_team_score + g.visitor_team_score > 0

GameQualifies(g) ==
    \/ Lower(g.status) \in CompletedStatuses
    \/ g.home_team_score + g.visitor_team_score > 0

RECURSIVE ScanGamesLastFallback(_, _)
\* the bug of falling back to the last record
ScanGamesLastFallback(data, i) ==
    IF i > Len(data) THEN data[Len(data)]
    ELSE IF GameQualifies(data[i]) THEN data[i]
    ELSE ScanGamesLastFallback(data, i + 1)

RECURSIVE ScanGames(_, _)
\* the for loop of fetch_game_for from index i on, then the data[0] fallback
ScanGames(data, i) ==
    IF i > Len(data) THEN data[1]
    ELSE IF GameQualifies(data[i]) THEN data[i]
    ELSE ScanGames(data, i + 1)

\* what fetch_game_for returns for the decoded list
SelectGame(data) == IF Len(data) = 0 THEN None ELSE Some(ScanGames(data, 1))

Pad(n, w) == LET s == NatStr(n) IN SubSeq("0000", 1, w - Len(s)) \o s

\* date.isoformat()
IsoFormat(d) == Pad(d.year, 4) \o "-" \o Pad(d.month, 2) \o "-" \o Pad(d.day, 2)

(***************************************************************************)
(* format_tweet                                                            *)
(***************************************************************************)

TweetLimit == 280

MonthAbbr == <<"Jan", "Feb", "Mar", "Apr", "May", "Jun",
               "Jul", "Aug", "Sep", "Oct", "Nov", "Dec">>

IsHome(g, tid) == g.home_team.id = tid

\* the bug of counting a tie as a win
WonOrTied(team_score, opp_score) == team_score >= opp_score

Won(team_score, opp_score) == team_score > opp_score

\* the text before the cut
TweetText(g, d, tid) ==
    LET is_home == IsHome(g, tid)
        team_score == IF is_home THEN g.home_team_score ELSE g.visitor_team_score
        opp == IF is_home THEN g.visitor_team ELSE g.home_team
        opp_score == IF is_home THEN g.visitor_team_score ELSE g.home_team_score
        yes_no == IF Won(team_score, opp_score) THEN "YES" ELSE "NO"
        date_str == MonthAbbr[d.month] \o " " \o IntStr(d.day) \o ", " \o IntStr(d.year)
        venue == IF is_home THEN "vs" ELSE "@"
        opponent_line == venue \o " " \o opp.full_name
        score_line == TEAM_NICK \o " " \o IntStr(team_score) \o " - "
                      \o IntStr(opp_score) \o " " \o opp.name
    IN  yes_no \o "\n\n" \o date_str \o "\n" \o opponent_line \o "\n" \o score_line

\* the bug of cutting one character late
TruncateOneLate(text) == SliceTo(text, TweetLimit + 1)

\* tweet[:280]
Truncate(text) == SliceTo(text, TweetLimit)

\* format_tweet(game, date_obj, team_id): None or Some(text)
FormatTweet(g, d, tid) ==
    IF g.tag = "None" THEN None ELSE Some(Truncate(TweetText(g.v, d, tid)))

(***************************************************************************)
(* post_to_x                                                               *)
(***************************************************************************)

\* the bug of leaving ACCESS_SECRET out of the check
AllCredsButLast(c) == \A i \in 1..3 : Truthy(c[i])

\* all([API_KEY, API_SECRET, ACCESS_TOKEN, ACCESS_SECRET])
AllCreds(c) == \A i \in 1..4 : Truthy(c[i])

\* the bug of treating status 400 as a success
PostFailedAbove400(resp) == resp.status_code > 400

PostFailed(resp) == resp.status_code >= 400

PostFailedMsg(resp) ==
    "Twitter post failed [" \o IntStr(resp.status_code) \o "]: " \o resp.text

MissingCredsMsg == "Missing one or more Twitter credentials in environment variables."

NoTeamMsg == "Could not resolve team_id for " \o TEAM_CITY_FULL \o " / " \o TEAM_ABBR

(***************************************************************************)
(* The inputs of a run: the environment, the clock, the providers' answers *)
(***************************************************************************)

MaxTeams == 2
MaxGames == 3
LongName == 120

SeqsUpTo(S, n) == UNION {[1..k -> S] : k \in 0..n}

RECURSIVE Rep(_, _)
\* the character c repeated n times
Rep(c, n) ==
    IF n = 0 THEN ""
    ELSE LET half == Rep(c, n \div 2)
         IN  half \o half \o (IF n % 2 = 1 THEN c ELSE "")

\* an answer to a GET of the stats provider.  connected = FALSE: requests raised
\* (no connection, or the 20 s timeout); jsonOk = FALSE: the body is not JSON;
\* hasData = FALSE: the JSON object has no "data" key
GetResponse(code, list) ==
    [connected |-> TRUE, status_code |-> code, jsonOk |-> TRUE, hasData |-> TRUE,
     data |-> list]

NoConnection ==
    [connected |-> FALSE, status_code |-> 0, jsonOk |-> FALSE, hasData |-> FALSE,
     data |-> <<>>]

BadAnswers ==
    {NoConnection,
     GetResponse(404, <<>>),
     GetResponse(500, <<>>),
     [GetResponse(200, <<>>) EXCEPT !.jsonOk = FALSE],
     [GetResponse(200, <<>>) EXCEPT !.hasData = FALSE]}

Team(id, abbr, full, name) ==
    [id |-> id, abbreviation |-> abbr, full_name |-> full, name |-> name]

Thunder == Team(25, "OKC", "Oklahoma City Thunder", "Thunder")
Nuggets == Team(8, "DEN", "Denver Nuggets", "Nuggets")
Lakers == Team(14, "LAL", "Los Angeles Lakers", "Lakers")

TeamPool ==
    {Thunder,
     Lakers,
     Team(21, "SEA", "Oklahoma City Thunder", "Thunder"),
     Team(30, "OKC", "Thunder", "Thunder"),
     Team(9, "okc", "oklahoma city thunder", "thunder")}

TeamsResponses ==
    BadAnswers \cup {GetResponse(200, l) : l \in SeqsUpTo(TeamPool, MaxTeams)}

Game(id, status, home, hs, visitor, vs) ==
    [id |-> id, status |-> status, home_team |-> home, home_team_score |-> hs,
     visitor_team |-> visitor, visitor_team_score |-> vs]

HomeWin == Game(1, "Final", Thunder, 120, Nuggets, 100)
AwayLoss == Game(2, "Final", Lakers, 110, Thunder, 108)
Scheduled == Game(3, "7:00 pm ET", Thunder, 0, Nuggets, 0)

GamesResponses ==
    BadAnswers \cup
    {GetResponse(200, l) :
        l \in {<<>>, <<HomeWin>>, <<AwayLoss>>, <<Scheduled>>, <<Scheduled, HomeWin>>}}

\* what the log of requests keeps of an answer: whether one arrived, its status,
\* whether its body decoded, and for a list how many records it held
Outcome(resp) ==
    [connected |-> resp.connected, status_code |-> resp.status_code,
     jsonOk |-> resp.jsonOk,
     count |-> IF "data" \in DOMAIN resp /\ resp.hasData THEN Len(resp.data) ELSE 0]

\* an answer to the POST of the posting provider
PostResponse(code, body) ==
    [connected |-> TRUE, status_code |-> code, jsonOk |-> TRUE, text |-> body]

PostResponses ==
    {[connected |-> FALSE, status_code |-> 0, jsonOk |-> FALSE, text |-> ""],
     PostResponse(201, "{\"data\": {\"id\": \"1\"}}"),
     [PostResponse(200, "ok") EXCEPT !.jsonOk = FALSE],
     PostResponse(399, "{}"),
     PostResponse(400, "bad request"),
     PostResponse(403, "forbidden"),
     PostResponse(503, "")}

Key == Some("k")

\* the four credentials: each set or unset, or all set but one that is empty
CredSets ==
    [1..4 -> {None, Key}]
    \cup {[i \in 1..4 |-> IF i = j THEN Some("") ELSE Key] : j \in 1..4}

Clock(d, h) == [ord |-> ToOrdinal(d), hour |-> h]

Environ(force, tid) == [FORCE_DATE |-> force, TEAM_ID |-> tid]

(***************************************************************************)
(* main(), stage by stage                                                  *)
(***************************************************************************)

Start(envs, credSets, clocks) ==
    /\ pc = "ResolveDate"
    /\ environ \in envs
    /\ creds \in credSets
    /\ now \in clocks
    /\ ydate = None
    /\ team_id = None
    /\ r = None
    /\ game = None
    /\ tweet = None
    /\ calls = <<>>
    /\ stages = <<>>
    /\ out = None
    /\ exit = None

\* the process ends: by fail(msg), by an uncaught exception, or by main returning
Terminate(how, printed) ==
    /\ pc' = "Done"
    /\ exit' = how
    /\ out' = printed

Continue(next) ==
    /\ pc' = next
    /\ UNCHANGED <<out, exit>>

\* ydate = chicago_yesterday_date()
ResolveDate ==
    /\ pc = "ResolveDate"
    /\ stages' = Append(stages, "ResolveDate")
    /\ \E d \in ChicagoYesterdayDate(environ.FORCE_DATE, now) : ydate' = Some(d)
    /\ Continue("ResolveTeam")
    /\ UNCHANGED <<environ, creds, now, team_id, r, game, tweet, calls>>

\* team_id = resolve_team_id()
ResolveTeam(answers) ==
    /\ pc = "ResolveTeam"
    /\ stages' = Append(stages, "ResolveTeam")
    /\ LET override == TeamIdOverride(environ.TEAM_ID)
       IN  IF override.tag = "Some"
           THEN /\ team_id' = override
                /\ Continue("FetchGame")
                /\ UNCHANGED <<r, calls>>
           ELSE \E resp \in answers :
                /\ calls' = Append(calls, [url |-> "teams", answer |-> Outcome(resp)])
                /\ IF ~resp.connected
                   THEN /\ Terminate(Raised("ConnectionError"), None)
                        /\ UNCHANGED <<r, team_id>>
                   ELSE /\ r' = Some(resp)
                        /\ IF RaisesForStatus(resp)
                           THEN /\ Terminate(Raised("HTTPError"), None)
                                /\ UNCHANGED team_id
                           ELSE IF ~resp.jsonOk
                           THEN /\ Terminate(Raised("JSONDecodeError"), None)
                                /\ UNCHANGED team_id
                           ELSE LET found == ScanTeams(DataOf(resp), 1)
                                IN  IF found.tag = "Some"
                                    THEN /\ team_id' = found
                                         /\ Continue("FetchGame")
                                    ELSE /\ Terminate(Failed, Some(NoTeamMsg))
                                         /\ UNCHANGED team_id
    /\ UNCHANGED <<environ, creds, now, ydate, game, tweet>>

\* game = fetch_game_for(team_id, ydate)
FetchGame(answers) ==
    /\ pc = "FetchGame"
    /\ stages' = Append(stages, "FetchGame")
    /\ \E resp \in answers :
        /\ calls' = Append(calls, [url |-> "games", date |-> IsoFormat(ydate.v),
                                   team_id |-> team_id.v, answer |-> Outcome(resp)])
        /\ IF ~resp.connected
           THEN /\ Terminate(Raised("ConnectionError"), None)
                /\ UNCHANGED <<r, game>>
           ELSE /\ r' = Some(resp)
                /\ IF RaisesForStatus(resp)
                   THEN /\ Terminate(Raised("HTTPError"), None)
                        /\ UNCHANGED game
                   ELSE IF ~resp.jsonOk
                   THEN /\ Terminate(Raised("JSONDecodeError"), None)
                        /\ UNCHANGED game
                   ELSE /\ game' = SelectGame(DataOf(resp))
                        /\ Continue("FormatMessage")
    /\ UNCHANGED <<environ, creds, now, ydate, team_id, tweet>>

\* the bug of posting whatever the formatter returned
AfterFormatAlwaysPublish(t) == "Publish"

\* main's branch on the formatter's result
AfterFormat(t) == IF t.tag = "None" THEN "NoOp" ELSE "Publish"

\* tweet = format_tweet(game, ydate, team_id)
FormatMessage ==
    /\ pc = "FormatMessage"
    /\ stages' = Append(stages, "FormatMessage")
    /\ tweet' = FormatTweet(game, ydate.v, team_id.v)
    /\ Continue(AfterFormat(tweet'))
    /\ UNCHANGED <<environ, creds, now, ydate, team_id, r, game, calls>>

\* tweet is None: print the notice and return
NoOp ==
    /\ pc = "NoOp"
    /\ stages' = Append(stages, "NoOp")
    /\ Terminate(Returned, None)
    /\ UNCHANGED <<environ, creds, now, ydate, team_id, r, game, tweet, calls>>

\* post_to_x(tweet), after which main returns
Publish(answers) ==
    /\ pc = "Publish"
    /\ stages' = Append(stages, "Publish")
    /\ IF ~AllCreds(creds)
       THEN /\ Terminate(Failed, Some(MissingCredsMsg))
            /\ UNCHANGED <<r, calls>>
       ELSE \E resp \in answers :
            /\ calls' = Append(calls, [url |-> "tweets", text |-> tweet, answer |-> Outcome(resp)])
            /\ IF ~resp.connected
               THEN /\ Terminate(Raised("ConnectionError"), None)
                    /\ UNCHANGED r
               ELSE /\ r' = Some(resp)
                    /\ IF PostFailed(resp)
                       THEN Terminate(Failed, Some(PostFailedMsg(resp)))
                       ELSE IF ~resp.jsonOk
                       THEN Terminate(Raised("JSONDecodeError"), None)
                       ELSE Terminate(Returned, None)
    /\ UNCHANGED <<environ, creds, now, ydate, team_id, game, tweet>>

(***************************************************************************)
(* Spec: whole runs of main()                                              *)
(***************************************************************************)

MainEnvirons ==
    {Environ(f, t) : f \in {None, Some("2024-01-15"), Some("yesterday")},
                     t \in {None, Some("25"), Some("2x")}}

MainClocks == {Clock(Date(2024, 3, 1), 4)}

Init == Start(MainEnvirons, CredSets, MainClocks)

Next ==
    \/ ResolveDate
    \/ ResolveTeam(TeamsResponses)
    \/ FetchGame(GamesResponses)
    \/ FormatMessage
    \/ NoOp
    \/ Publish(PostResponses)

Spec == Init /\ [][Next]_vars

\* FormatMessage and NoOp compute locally and wait for nothing: once main has
\* the fetched game it formats it, and once it has nothing to post it returns
FairSpec == Spec /\ WF_vars(FormatMessage) /\ WF_vars(NoOp)

(***************************************************************************)
(* SpecDate: chicago_yesterday_date over many overrides and clock readings *)
(***************************************************************************)

AllKeys == [i \in 1..4 |-> Key]

DateOverrides ==
    {None, Some(""), Some("2024-01-15"), Some("2024-02-29"), Some("2023-02-29"),
     Some("2024-13-01"), Some("2024-04-31"), Some("2024-1-5"), Some("20240115"),
     Some("20241301"), Some("yesterday"), Some("2024-01-15 "), Some("0000-01-01"),
     Some("9999-12-31"), Some("2024/01/15"), Some("2023-12-31")}

ClockDays ==
    {Date(2024, 1, 1), Date(2025, 1, 1), Date(2024, 3, 1), Date(2023, 3, 1),
     Date(2100, 3, 1), Date(2000, 3, 1), Date(2024, 3, 10), Date(2024, 3, 11),
     Date(2024, 11, 3), Date(2024, 11, 4), Date(2024, 7, 15), Date(2024, 5, 31)}

DateClocks == {Clock(d, h) : d \in ClockDays, h \in 0..23}

InitDate == Start({Environ(f, Some("25")) : f \in DateOverrides}, {AllKeys}, DateClocks)

NextDate == ResolveDate

SpecDate == InitDate /\ [][NextDate]_vars

(***************************************************************************)
(* SpecFetch: fetch_game_for over every list of up to MaxGames records     *)
(***************************************************************************)

FetchStatuses == {"Final", "final", "FINAL/OT", "Finished", "In Progress", ""}

FetchPool ==
    {Game(0, st, Thunder, sc[1], Nuggets, sc[2]) :
        st \in FetchStatuses, sc \in {<<0, 0>>, <<110, 108>>}}

\* the provider's records carry distinct ids
Numbered(l) == [i \in 1..Len(l) |-> [l[i] EXCEPT !.id = i]]

FetchResponses ==
    BadAnswers \cup {GetResponse(200, Numbered(l)) : l \in SeqsUpTo(FetchPool, MaxGames)}

InitFetch ==
    Start({Environ(Some("2024-01-15"), Some("25"))}, {AllKeys}, MainClocks)

NextFetch ==
    \/ ResolveDate
    \/ ResolveTeam(TeamsResponses)
    \/ FetchGame(FetchResponses)

SpecFetch == InitFetch /\ [][NextFetch]_vars

(***************************************************************************)
(* SpecFormat: format_tweet over games, dates and team ids                 *)
(***************************************************************************)

FullNames == {"Denver Nuggets", Rep("N", LongName), Rep("N", LongName + 1)}

ShortNames == {"Nuggets", "", Rep("n", LongName), Rep("n", LongName + 1)}

ScorePairs == {<<120, 100>>, <<100, 120>>, <<100, 100>>, <<0, 0>>, <<1000000, 7>>}

FormatGames ==
    LET opps == {Team(8, "DEN", f, n) : f \in FullNames, n \in ShortNames}
    IN  {Game(1, "Final", Thunder, sc[1], o, sc[2]) : o \in opps, sc \in ScorePairs}
        \cup {Game(1, "Final", o, sc[1], Thunder, sc[2]) : o \in opps, sc \in ScorePairs}

FormatResponses == {GetResponse(200, <<g>>) : g \in FormatGames} \cup {GetResponse(200, <<>>)}

FormatEnvirons ==
    {Environ(f, t) : f \in {Some("2024-01-15"), Some("2024-12-05")},
                     t \in {Some("25"), Some("8"), Some(" -3 ")}}

InitFormat == Start(FormatEnvirons, {AllKeys}, MainClocks)

NextFormat ==
    \/ ResolveDate
    \/ ResolveTeam(TeamsResponses)
    \/ FetchGame(FormatResponses)
    \/ FormatMessage

SpecFormat == InitFormat /\ [][NextFormat]_vars

(***************************************************************************)
(* Properties of chicago_yesterday_date (SpecDate)                         *)
(***************************************************************************)

\* of the years 1, 2023, 2024 and 9999 only 2024 is a leap year
C10_MonthLength(y, m) ==
    IF m \in {4, 6, 9, 11} THEN 30
    ELSE IF m = 2 THEN (IF y = 2024 THEN 29 ELSE 28)
    ELSE 31

C10_Calendar ==
    {dt \in {Date(y, m, d) : y \in {1, 2023, 2024, 9999}, m \in 1..12, d \in 1..31} :
        dt.day <= C10_MonthLength(dt.year, dt.month)}

\* the YYYY-MM-DD strings that name a calendar date, with the date each names
C10_IsoDates == {<<IsoFormat(d), d>> : d \in C10_Calendar}

\* the same dates written YYYYMMDD
C10_BasicDates ==
    {<<Pad(d.year, 4) \o Pad(d.month, 2) \o Pad(d.day, 2), d>> : d \in C10_Calendar}

C10_PrevDay(d) ==
    IF d.day > 1 THEN Date(d.year, d.month, d.day - 1)
    ELSE IF d.month > 1 THEN Date(d.year, d.month - 1, DaysInMonth(d.year, d.month - 1))
    ELSE Date(d.year - 1, 12, 31)

\* the calendar date in America/Chicago at the clock reading
C10_ChicagoToday == FromOrdinal(NowCt(now).ord)

C10_Returned == "ResolveDate" \in {stages[i] : i \in 1..Len(stages)}

\* C10: chicago_yesterday_date always returns a date and never ends the process;
\* for FORCE_DATE a valid YYYY-MM-DD date it returns that date whatever the clock
\* says; for FORCE_DATE unset, empty or malformed it returns the America/Chicago
\* calendar date minus one day.  (YYYYMMDD, which only Python >= 3.11 parses,
\* gives one or the other.)
C10_DateResolved ==
    C10_Returned =>
        /\ exit = None
        /\ pc = "ResolveTeam"
        /\ ydate.tag = "Some"
        /\ ValidDate(ydate.v.year, ydate.v.month, ydate.v.day)
        /\ LET f == environ.FORCE_DATE
               default == C10_PrevDay(C10_ChicagoToday)
               iso == IF f.tag = "None" THEN {} ELSE {p \in C10_IsoDates : p[1] = f.v}
               basic == IF f.tag = "None" THEN {} ELSE {p \in C10_BasicDates : p[1] = f.v}
           IN  /\ \A p \in iso : ydate.v = p[2]
               /\ \A p \in basic : ydate.v \in {p[2], default}
               /\ (iso = {} /\ basic = {}) => ydate.v = default

\* a malformed override (29 February of a common year) on 1 March of a leap
\* year: the fallback yields 29 February
C10_Witness ==
    /\ C10_Returned
    /\ environ.FORCE_DATE = Some("2023-02-29")
    /\ C10_ChicagoToday = Date(2024, 3, 1)
    /\ ydate = Some(Date(2024, 2, 29))

(***************************************************************************)
(* Properties of fetch_game_for (SpecFetch)                                *)
(***************************************************************************)

\* the games endpoint answered with a decodable list, and fetch_game_for returned
GamesDecoded ==
    /\ Len(calls) > 0
    /\ calls[Len(calls)].url = "games"
    /\ calls[Len(calls)].answer.connected
    /\ calls[Len(calls)].answer.status_code < 400
    /\ calls[Len(calls)].answer.jsonOk

\* the list it decoded (r is the answer to the last request)
GamesList == DataOf(r.v)

C9_Qualifies(g) ==
    \/ Lower(g.status) = "final"
    \/ Lower(g.status) = "final/ot"
    \/ Lower(g.status) = "finished"
    \/ g.home_team_score + g.visitor_team_score > 0

\* C9: for an empty list fetch_game_for returns None; otherwise the first record
\* in provider order that is completed (status final, final/ot or finished in
\* any case) or has a positive combined score, or the first record of the list
\* when none is; the result is always an element of the list
C9_Selection ==
    GamesDecoded =>
        LET data == GamesList
            q == {i \in 1..Len(data) : C9_Qualifies(data[i])}
        IN  /\ pc = "FormatMessage"
            /\ Len(data) = 0 => game = None
            /\ Len(data) > 0 =>
                /\ game.tag = "Some"
                /\ \E i \in 1..Len(data) : game.v = data[i]
                /\ q = {} => game.v = data[1]
                /\ q # {} => game.v = data[CHOOSE i \in q : \A j \in q : i <= j]

\* an unfinished first record, a scored one in play second and a final third:
\* the second is returned
C9_Witness ==
    /\ GamesDecoded
    /\ Len(GamesList) = 3
    /\ ~C9_Qualifies(GamesList[1])
    /\ GamesList[2].status = "In Progress"
    /\ GamesList[3].status = "Final"
    /\ game = Some(GamesList[2])

C3_Finals == {i \in 1..Len(GamesList) : GamesList[i].status = "Final"}

\* C3 as stated: of two or more records with exactly one "Final", that one is
\* returned whatever the other records are
C3_Original ==
    (GamesDecoded /\ Len(GamesList) >= 2 /\ Cardinality(C3_Finals) = 1) =>
        \A i \in C3_Finals : game = Some(GamesList[i])

\* C3 amended: of two or more records with exactly one "Final", that one is
\* returned provided no record before it in the list has a completed status
\* (final, final/ot, finished, in any case) or a positive combined score
C3_Amended ==
    (GamesDecoded /\ Len(GamesList) >= 2 /\ Cardinality(C3_Finals) = 1) =>
        \A i \in C3_Finals :
            (\A j \in 1..(i - 1) : ~C9_Qualifies(GamesList[j])) => game = Some(GamesList[i])

\* the one "Final" record is last, behind two unfinished scoreless ones
C3_Witness ==
    /\ GamesDecoded
    /\ Len(GamesList) = 3
    /\ C3_Finals = {3}
    /\ GamesList[3].home_team_score + GamesList[3].visitor_team_score = 0
    /\ ~C9_Qualifies(GamesList[1])
    /\ ~C9_Qualifies(GamesList[2])
    /\ game = Some(GamesList[3])

(***************************************************************************)
(* Properties of format_tweet (SpecFormat)                                 *)
(***************************************************************************)

\* format_tweet returned a message
Formatted ==
    /\ "FormatMessage" \in {stages[i] : i \in 1..Len(stages)}
    /\ tweet.tag = "Some"

NewlinesOf(text) == {i \in 1..Len(text) : CharAt(text, i) = "\n"}

\* the k-th line of the text, for k at most the number of its lines
LineOf(text, k) ==
    LET nl == NewlinesOf(text)
        pos(n) == CHOOSE i \in nl : Cardinality({j \in nl : j < i}) = n - 1
        first == IF k = 1 THEN 1 ELSE pos(k - 1) + 1
        last == IF Cardinality(nl) >= k THEN pos(k) - 1 ELSE Len(text)
    IN  SubSeq(text, first, last)

\* C5: the team score is the home score exactly when the resolved id is the home
\* team's id; the message begins with YES exactly when the team score is
\* strictly greater than the opponent's and with NO otherwise (also for a tie);
\* the opponent line begins with "vs" exactly when the team is the home side and
\* with "@" otherwise
C5_Format ==
    Formatted =>
        LET g == game.v
            home == g.home_team.id = team_id.v
            ts == IF home THEN g.home_team_score ELSE g.visitor_team_score
            os == IF home THEN g.visitor_team_score ELSE g.home_team_score
            text == tweet.v
        IN  /\ StartsWith(text, "YES\n") <=> ts > os
            /\ StartsWith(text, "NO\n") <=> ~(ts > os)
            /\ StartsWith(LineOf(text, 4), "vs ") <=> home
            /\ StartsWith(LineOf(text, 4), "@ ") <=> ~home
            /\ Len(text) < TweetLimit =>
                StartsWith(LineOf(text, 5),
                           "Thunder " \o IntStr(ts) \o " - " \o IntStr(os) \o " ")

\* the team is the visitor and the game is tied: NO and "@"
C5_Witness ==
    /\ Formatted
    /\ game.v.visitor_team.id = team_id.v
    /\ game.v.home_team_score = 100
    /\ game.v.visitor_team_score = 100
    /\ StartsWith(tweet.v, "NO\n\nJan 15, 2024\n@ Denver Nuggets\nThunder 100 - 100 ")

\* C6: a returned message has at most 280 characters; a longer text is cut to
\* exactly its first 280 characters, and a text within the limit is returned whole
C6_Length ==
    Formatted =>
        LET full == TweetText(game.v, ydate.v, team_id.v)
        IN  /\ Len(tweet.v) <= 280
            /\ Len(full) > 280 => tweet.v = SubSeq(full, 1, 280)
            /\ Len(full) <= 280 => tweet.v = full

\* a text of 281 characters, cut to 280
C6_Witness ==
    /\ Formatted
    /\ Len(TweetText(game.v, ydate.v, team_id.v)) = 281
    /\ Len(tweet.v) = 280

(***************************************************************************)
(* Properties of whole runs (Spec, FairSpec)                               *)
(***************************************************************************)

Ended == pc = "Done"

StagesRun == {stages[i] : i \in 1..Len(stages)}

CallsTo(url) == {i \in 1..Len(calls) : calls[i].url = url}

\* an answer that arrived, with a status below 400 and a JSON body
Succeeded(answer) == answer.connected /\ answer.status_code < 400 /\ answer.jsonOk

\* the games endpoint answered successfully with zero game records
ZeroGames ==
    \E i \in CallsTo("games") : Succeeded(calls[i].answer) /\ calls[i].answer.count = 0

\* C1: once the games endpoint has answered successfully with zero records, no
\* request is ever made to the posting endpoint, the run cannot end with a
\* status other than 0, and it does end with status 0, whatever the credentials
C1_ZeroGamesNoOp ==
    /\ [](ZeroGames => (CallsTo("tweets") = {} /\ "Publish" \notin StagesRun
                        /\ (Ended => exit = Returned)))
    /\ (ZeroGames ~> (Ended /\ exit = Returned))

\* zero games with all four credentials set: the run ended with status 0
C1_Witness ==
    /\ ZeroGames
    /\ AllCreds(creds)
    /\ Ended
    /\ exit.v.status = 0
    /\ stages[Len(stages)] = "NoOp"

CredMissing == \E i \in 1..4 : creds[i] = None \/ creds[i] = Some("")

\* C2 as stated: whenever a credential is missing the run ends with status 1
C2_Original == (CredMissing /\ Ended) => exit.v.status = 1

\* C2 amended: when a credential is missing no request is ever made to the
\* posting endpoint, and a run that reaches the publisher (the formatter
\* produced a message) ends there through fail() with status 1; a run that ends
\* before the publisher (no game, or a failure of a stats call) ends as it would
\* with the credentials set
C2_Amended ==
    CredMissing =>
        /\ CallsTo("tweets") = {}
        /\ "Publish" \in StagesRun =>
            /\ Ended
            /\ exit.v.status = 1
            /\ exit.v.via = "fail"
            /\ out = Some(MissingCredsMsg)

\* three of the four credentials set, a message formatted: exit 1, nothing posted
C2_Witness ==
    /\ Cardinality({i \in 1..4 : creds[i] = Some("k")}) = 3
    /\ creds[4] = None
    /\ "Publish" \in StagesRun
    /\ tweet.tag = "Some"
    /\ exit = Failed
    /\ CallsTo("tweets") = {}

Contains(s, sub) == \E k \in 1..(Len(s) - Len(sub) + 1) : SubSeq(s, k, k + Len(sub) - 1) = sub

EndsWith(s, sub) == Len(sub) <= Len(s) /\ SubSeq(s, Len(s) - Len(sub) + 1, Len(s)) = sub

\* the posting request was sent and failed: no connection or timeout, or a status >= 400
PostRejected == \E i \in CallsTo("tweets") : calls[i].answer.connected /\ calls[i].answer.status_code >= 400

PostUnreachable == \E i \in CallsTo("tweets") : ~calls[i].answer.connected

\* the failure was reported through fail() with the status code and the body
ReportedByFail ==
    /\ exit.tag = "Some"
    /\ exit.v.via = "fail"
    /\ exit.v.status = 1
    /\ out.tag = "Some"
    /\ Contains(out.v, "[" \o IntStr(r.v.status_code) \o "]")
    /\ EndsWith(out.v, r.v.text)

\* C4 as stated: every failure of the posting call, by status or by transport,
\* is reported through fail() and never leaves post_to_x as an exception
C4_Original == (PostRejected \/ PostUnreachable) => ReportedByFail

\* C4 amended: a status >= 400 of the posting endpoint is reported through
\* fail() with the status code and the response body, and the process exits
\* with status 1; a request that cannot connect or times out is not caught: the
\* exception leaves post_to_x, nothing is reported by fail(), and the process
\* ends with a non-zero status
C4_Amended ==
    /\ PostRejected => ReportedByFail
    /\ PostUnreachable =>
        /\ Ended
        /\ exit.v.via = "exception"
        /\ exit.v.status # 0
        /\ out = None

\* the posting endpoint answered 400, the lowest failing status
C4_Witness ==
    /\ \E i \in CallsTo("tweets") : calls[i].answer.status_code = 400
    /\ exit = Failed
    /\ out = Some("Twitter post failed [400]: bad request")

\* the team listing was requested and answered with a decodable list
TeamsDecoded ==
    /\ Len(calls) = 1
    /\ calls[1].url = "teams"
    /\ Succeeded(calls[1].answer)

\* the list it decoded (r is the answer to the last request)
TeamsList == DataOf(r.v)

C7_Matches(t) == t.abbreviation = "OKC" \/ t.full_name = "Oklahoma City Thunder"

\* C7: when the team listing is consulted and answers, team_id is the id of the
\* first record in provider order whose abbreviation is "OKC" or whose full name
\* is "Oklahoma City Thunder"; when no record matches there is no id, the process
\* has ended with status 1, and neither the games nor the posting endpoint was
\* called
C7_TeamResolved ==
    TeamsDecoded =>
        LET data == TeamsList
            m == {i \in 1..Len(data) : C7_Matches(data[i])}
        IN  /\ TeamIdOverride(environ.TEAM_ID) = None
            /\ m # {} => team_id = Some(data[CHOOSE i \in m : \A j \in m : i <= j].id)
            /\ m = {} =>
                /\ team_id = None
                /\ Ended
                /\ exit.v.status = 1
                /\ CallsTo("games") = {}
                /\ CallsTo("tweets") = {}

\* two matching records, the first by full name only: its id is the one returned
C7_Witness ==
    /\ TeamsDecoded
    /\ Len(TeamsList) = 2
    /\ TeamsList[1].abbreviation = "SEA"
    /\ TeamsList[2].abbreviation = "OKC"
    /\ TeamsList[1].id # TeamsList[2].id
    /\ team_id = Some(TeamsList[1].id)

IsPrefix(s, t) == Len(s) <= Len(t) /\ SubSeq(t, 1, Len(s)) = s

\* a stats call (team listing or games) was answered with an error status
StatsErrorStatus ==
    \E i \in CallsTo("teams") \cup CallsTo("games") :
        calls[i].answer.connected /\ calls[i].answer.status_code >= 400

\* C8: the stages run in the order ResolveDate, ResolveTeam, FetchGame,
\* FormatMessage and then exactly one of Publish and NoOp; at most one request
\* goes to the posting endpoint, and only after the team was resolved, the games
\* call succeeded and the formatter produced a message; an error status from a
\* stats call ends the run with a non-zero status and nothing is posted
C8_Order ==
    /\ \/ IsPrefix(stages, <<"ResolveDate", "ResolveTeam", "FetchGame", "FormatMessage", "Publish">>)
       \/ IsPrefix(stages, <<"ResolveDate", "ResolveTeam", "FetchGame", "FormatMessage", "NoOp">>)
    /\ "FormatMessage" \in StagesRun => (Ended <=> Len(stages) = 5)
    /\ Cardinality(CallsTo("tweets")) <= 1
    /\ \A i \in CallsTo("tweets") :
        /\ i = Len(calls)
        /\ team_id.tag = "Some"
        /\ \A j \in CallsTo("teams") : Succeeded(calls[j].answer)
        /\ \E j \in CallsTo("games") : j = i - 1 /\ Succeeded(calls[j].answer)
        /\ calls[i].text.tag = "Some"
        /\ calls[i].text = tweet
    /\ StatsErrorStatus =>
        /\ Ended
        /\ exit.v.status # 0
        /\ CallsTo("tweets") = {}

\* a whole run that listed the teams, fetched a game and posted once
C8_Witness ==
    /\ Ended
    /\ exit = Returned
    /\ stages = <<"ResolveDate", "ResolveTeam", "FetchGame", "FormatMessage", "Publish">>
    /\ Len(calls) = 3
    /\ calls[1].url = "teams"
    /\ calls[2].url = "games"
    /\ calls[3].url = "tweets"

====
